---- MODULE Spec2Model ----
(***************************************************************************)
(* State-machine model of webrtc::DelayManager                             *)
(* (modules/audio_coding/neteq/delay_manager.cc).                          *)
(*                                                                         *)
(* A uint32_t RTP timestamp is kept as a pair <<hi, lo>> of 16-bit limbs,  *)
(* because the model checker's integers are 32-bit signed; the 32-bit     *)
(* arithmetic of the source is carried out on the limbs.                   *)
(***************************************************************************)
EXTENDS Integers, Sequences, FiniteSets, TLC

VARIABLES
  max_packets_in_buffer,        \* max_packets_in_buffer_ (fixed at construction)
  first_packet_received,        \* first_packet_received_
  last_timestamp,               \* last_timestamp_ (uint32 as <<hi, lo>>)
  num_reordered_packets,        \* num_reordered_packets_
  packet_len_ms,                \* packet_len_ms_
  minimum_delay_ms,             \* minimum_delay_ms_
  maximum_delay_ms,             \* maximum_delay_ms_
  base_minimum_delay_ms,        \* base_minimum_delay_ms_
  effective_minimum_delay_ms,   \* effective_minimum_delay_ms_
  target_level_ms,              \* target_level_ms_
  delay_history,                \* delay_history_ (deque of PacketDelay)
  packet_iat_stopwatch,         \* ms elapsed on packet_iat_stopwatch_
  call                          \* the last completed call, its arguments and result

estimator == <<first_packet_received, last_timestamp, num_reordered_packets,
               delay_history>>
bounds    == <<minimum_delay_ms, maximum_delay_ms, base_minimum_delay_ms>>
manager   == <<max_packets_in_buffer, estimator, bounds, packet_len_ms,
               effective_minimum_delay_ms, target_level_ms>>
vars      == <<manager, packet_iat_stopwatch, call>>

-----------------------------------------------------------------------------
(* Program constants.                                                      *)
kMinBaseMinimumDelayMs == 0
kMaxBaseMinimumDelayMs == 10000
kMaxHistoryMs == 2000
kDelayBuckets == 100
kBucketSizeMs == 20
kStartDelayMs == 80
kMaxNumReorderedPackets == 5

-----------------------------------------------------------------------------
(* Bounds of the model.                                                    *)
\* The stopwatch is read at most this many timer steps after its start.
MaxStopwatchTicks == 2

(* Inputs.                                                                 *)
TS(hi, lo) == <<hi, lo>>

-----------------------------------------------------------------------------
(* Integer helpers.                                                        *)
Min(a, b) == IF a < b THEN a ELSE b
Max(a, b) == IF a > b THEN a ELSE b

\* C++ integer division truncates toward zero (divisor > 0 here).
TruncDiv(a, b) == IF a >= 0 THEN a \div b ELSE -((-a) \div b)

\* timestamp - last_timestamp_ in uint32_t arithmetic (wraps mod 2^32).
U32Sub(a, b) ==
  LET lo     == a[2] - b[2]
      borrow == IF lo < 0 THEN 1 ELSE 0
  IN  <<(a[1] - b[1] - borrow) % 65536, lo % 65536>>

\* static_cast<int32_t>(u): the two's-complement reading of a uint32_t.
ToInt32(u) ==
  IF u[1] >= 32768 THEN (u[1] - 65536) * 65536 + u[2]
                   ELSE u[1] * 65536 + u[2]

\* The bit pattern of an int32_t as a uint32_t.
ToUint32(d) == <<(d \div 65536) % 65536, d % 65536>>

\* u > n for a uint32_t u and 0 <= n < 2^31.
U32Greater(u, n) == IF u[1] >= 32768 THEN TRUE ELSE u[1] * 65536 + u[2] > n

-----------------------------------------------------------------------------
(* Collaborators.                                                          *)

\* IsNewerTimestamp(timestamp, prev_timestamp): timestamp is strictly newer
\* than prev_timestamp under 32-bit wraparound; a distance of exactly 2^31
\* is resolved by the plain unsigned comparison.
IsNewerTimestamp(timestamp, prev_timestamp) ==
  LET diff == U32Sub(timestamp, prev_timestamp)
  IN  IF diff = <<32768, 0>>
        THEN \/ timestamp[1] > prev_timestamp[1]
             \/ timestamp[1] = prev_timestamp[1] /\ timestamp[2] > prev_timestamp[2]
        ELSE timestamp # prev_timestamp /\ diff[1] < 32768

\* histogram_->Quantile(histogram_quantile_): some bucket of the histogram.
HistogramBuckets == 0 .. (kDelayBuckets - 1)

-----------------------------------------------------------------------------
(* DelayManager::Update, lines 138-139:                                    *)
(*   1000 * static_cast<int32_t>(timestamp - last_timestamp_)              *)
(*        / sample_rate_hz                                                 *)
(* The multiplication is done in int.  When 1000 * d leaves the int range  *)
(* the behaviour is undefined: the outcomes kept are the wrapped 32-bit    *)
(* product and the product carried out exactly.                            *)

\* 1000 * d fits a signed 32-bit integer.
ProductInRange(d) == -2147483 <= d /\ d <= 2147483

\* (1000 * d) / sample_rate_hz, truncating, without overflowing the
\* checker's integers: 1000*(q*r + m)/r = 1000*q + (1000*m)/r.
ExactQuotient(d, sample_rate_hz) ==
  LET a == IF d >= 0 THEN d ELSE -d
      q == a \div sample_rate_hz
      m == a % sample_rate_hz
      v == 1000 * q + (1000 * m) \div sample_rate_hz
  IN  IF d >= 0 THEN v ELSE -v

\* (1000 * d) mod 2^32 read as int32_t, then divided.
WrappedQuotient(d, sample_rate_hz) ==
  LET u     == ToUint32(d)
      p0    == 1000 * u[2]
      carry == p0 \div 65536
      prod  == <<(1000 * u[1] + carry) % 65536, p0 % 65536>>
  IN  TruncDiv(ToInt32(prod), sample_rate_hz)

ExpectedIatMs(timestamp, prev_timestamp, sample_rate_hz) ==
  LET d == ToInt32(U32Sub(timestamp, prev_timestamp))
  IN  IF ProductInRange(d)
        THEN {ExactQuotient(d, sample_rate_hz)}
        ELSE {WrappedQuotient(d, sample_rate_hz), ExactQuotient(d, sample_rate_hz)}

-----------------------------------------------------------------------------
(* DelayManager::UpdateDelayHistory                                        *)
RECURSIVE PopOld(_, _, _)
PopOld(history, timestamp, limit) ==
  IF U32Greater(U32Sub(timestamp, Head(history).timestamp), limit)
    THEN PopOld(Tail(history), timestamp, limit)
    ELSE history

\* Mutant of UpdateDelayHistory: nothing is ever evicted.
UpdateDelayHistory_NoEviction(history, iat_delay_ms, timestamp, sample_rate_hz) ==
  Append(history, [iat_delay_ms |-> iat_delay_ms, timestamp |-> timestamp])

UpdateDelayHistory(history, iat_delay_ms, timestamp, sample_rate_hz) ==
  PopOld(Append(history, [iat_delay_ms |-> iat_delay_ms, timestamp |-> timestamp]),
         timestamp,
         TruncDiv(kMaxHistoryMs * sample_rate_hz, 1000))

\* Mutant of CalculateRelativePacketArrivalDelay: the sum is never clamped.
RECURSIVE SumOfDelays(_)
SumOfDelays(history) ==
  IF history = << >> THEN 0
  ELSE Head(history).iat_delay_ms + SumOfDelays(Tail(history))

(* DelayManager::CalculateRelativePacketArrivalDelay, lines 205-208: the    *)
(* loop over delay_history_, from a running value.                         *)
RECURSIVE RelativeDelayFrom(_, _)
RelativeDelayFrom(relative_delay, history) ==
  IF history = << >>
    THEN relative_delay
    ELSE RelativeDelayFrom(Max(relative_delay + Head(history).iat_delay_ms, 0),
                           Tail(history))

CalculateRelativePacketArrivalDelay_NoClamp(history) == SumOfDelays(history)

(* DelayManager::CalculateRelativePacketArrivalDelay                        *)
CalculateRelativePacketArrivalDelay(history) == RelativeDelayFrom(0, history)

-----------------------------------------------------------------------------
\* Mutant of MinimumDelayUpperBound: the maximum delay is left out.
MinimumDelayUpperBound_IgnoresMaximum(packet_len, maximum_delay) ==
  LET q75raw == TruncDiv(max_packets_in_buffer * packet_len * 3, 4)
  IN  IF q75raw > 0 THEN q75raw ELSE kMaxBaseMinimumDelayMs

(* DelayManager::MinimumDelayUpperBound                                    *)
MinimumDelayUpperBound(packet_len, maximum_delay) ==
  LET q75raw == TruncDiv(max_packets_in_buffer * packet_len * 3, 4)
      q75    == IF q75raw > 0 THEN q75raw ELSE kMaxBaseMinimumDelayMs
      maxd   == IF maximum_delay > 0 THEN maximum_delay ELSE kMaxBaseMinimumDelayMs
  IN  Min(maxd, q75)

\* rtc::SafeClamp(x, lo, hi)
SafeClamp(x, lo, hi) == IF x < lo THEN lo ELSE IF x > hi THEN hi ELSE x

(* DelayManager::UpdateEffectiveMinimumDelay: the value it stores.         *)
UpdateEffectiveMinimumDelay(minimum_delay, maximum_delay, base_minimum_delay) ==
  Max(minimum_delay,
      SafeClamp(base_minimum_delay, 0,
                MinimumDelayUpperBound(packet_len_ms, maximum_delay)))

\* Mutants of the validity checks: the upper bound itself is refused.
IsValidMinimumDelay_Strict(delay_ms) ==
  0 <= delay_ms /\ delay_ms < MinimumDelayUpperBound(packet_len_ms, maximum_delay_ms)

IsValidBaseMinimumDelay_Strict(delay_ms) ==
  kMinBaseMinimumDelayMs <= delay_ms /\ delay_ms < kMaxBaseMinimumDelayMs

(* DelayManager::IsValidMinimumDelay                                       *)
IsValidMinimumDelay(delay_ms) ==
  0 <= delay_ms /\ delay_ms <= MinimumDelayUpperBound(packet_len_ms, maximum_delay_ms)

(* DelayManager::IsValidBaseMinimumDelay                                   *)
IsValidBaseMinimumDelay(delay_ms) ==
  kMinBaseMinimumDelayMs <= delay_ms /\ delay_ms <= kMaxBaseMinimumDelayMs

\* Mutants of TargetLevelMs: the effective-minimum floor, the maximum clamp
\* or the 75% ceiling left out.
TargetLevelMs_NoMinimum(bucket_index) ==
  LET t1 == (1 + bucket_index) * kBucketSizeMs
      t2 == IF maximum_delay_ms > 0 THEN Min(t1, maximum_delay_ms) ELSE t1
      t3 == IF packet_len_ms > 0 THEN Max(t2, packet_len_ms) ELSE t2
  IN  IF packet_len_ms > 0
        THEN Min(t3, TruncDiv(3 * max_packets_in_buffer * packet_len_ms, 4))
        ELSE t3

TargetLevelMs_NoMaximum(bucket_index) ==
  LET t1 == Max((1 + bucket_index) * kBucketSizeMs, effective_minimum_delay_ms)
      t3 == IF packet_len_ms > 0 THEN Max(t1, packet_len_ms) ELSE t1
  IN  IF packet_len_ms > 0
        THEN Min(t3, TruncDiv(3 * max_packets_in_buffer * packet_len_ms, 4))
        ELSE t3

TargetLevelMs_NoCeiling(bucket_index) ==
  LET t1 == Max((1 + bucket_index) * kBucketSizeMs, effective_minimum_delay_ms)
      t2 == IF maximum_delay_ms > 0 THEN Min(t1, maximum_delay_ms) ELSE t1
  IN  IF packet_len_ms > 0 THEN Max(t2, packet_len_ms) ELSE t2

(* DelayManager::Update, lines 155-168: the new target level.              *)
TargetLevelMs(bucket_index) ==
  LET t0 == (1 + bucket_index) * kBucketSizeMs
      t1 == Max(t0, effective_minimum_delay_ms)
      t2 == IF maximum_delay_ms > 0 THEN Min(t1, maximum_delay_ms) ELSE t1
      t3 == IF packet_len_ms > 0 THEN Max(t2, packet_len_ms) ELSE t2
      t4 == IF packet_len_ms > 0
              THEN Min(t3, TruncDiv(3 * max_packets_in_buffer * packet_len_ms, 4))
              ELSE t3
  IN  t4

-----------------------------------------------------------------------------
(* The record of a completed call: which operation, with which arguments,  *)
(* and what it returned.  has_value is FALSE for absl::nullopt and for a   *)
(* void return; a bool result is 1 (true) or 0 (false).                    *)
Completed(op, timestamp, sample_rate_hz, reset, arg, has_value, value) ==
  [op |-> op, timestamp |-> timestamp, sample_rate_hz |-> sample_rate_hz,
   reset |-> reset, arg |-> arg, has_value |-> has_value, value |-> value]

Returned(op, arg, value) == Completed(op, <<0, 0>>, 0, FALSE, arg, TRUE, value)

-----------------------------------------------------------------------------
(* DelayManager::DelayManager: the member initialisers, then Reset().      *)
Construct(max_packets, base_minimum_delay) ==
  /\ max_packets_in_buffer = max_packets
  /\ first_packet_received = FALSE
  /\ base_minimum_delay_ms = base_minimum_delay
  /\ effective_minimum_delay_ms = base_minimum_delay
  /\ minimum_delay_ms = 0
  /\ maximum_delay_ms = 0
  /\ target_level_ms = kStartDelayMs
  /\ last_timestamp = <<0, 0>>
  /\ packet_len_ms = 0
  /\ delay_history = << >>
  /\ packet_iat_stopwatch = 0
  /\ num_reordered_packets = 0
  /\ call = Completed("DelayManager", <<0, 0>>, 0, FALSE, base_minimum_delay, FALSE, 0)

\* Mutant of Reset: the delay bounds go back to their construction values too.
Reset_ClearsBounds ==
  /\ packet_len_ms' = 0
  /\ delay_history' = << >>
  /\ target_level_ms' = kStartDelayMs
  /\ packet_iat_stopwatch' = 0
  /\ first_packet_received' = FALSE
  /\ num_reordered_packets' = 0
  /\ minimum_delay_ms' = 0
  /\ maximum_delay_ms' = 0
  /\ call' = Completed("Reset", <<0, 0>>, 0, FALSE, 0, FALSE, 0)
  /\ UNCHANGED <<max_packets_in_buffer, last_timestamp, base_minimum_delay_ms,
                 effective_minimum_delay_ms>>

(* DelayManager::Reset                                                     *)
Reset ==
  /\ packet_len_ms' = 0
  /\ delay_history' = << >>
  /\ target_level_ms' = kStartDelayMs
  /\ packet_iat_stopwatch' = 0
  /\ first_packet_received' = FALSE
  /\ num_reordered_packets' = 0
  /\ call' = Completed("Reset", <<0, 0>>, 0, FALSE, 0, FALSE, 0)
  /\ UNCHANGED <<max_packets_in_buffer, last_timestamp, bounds,
                 effective_minimum_delay_ms>>

(* DelayManager::Update, lines 124-126: an invalid sample rate.            *)
UpdateInvalidRate(timestamp, sample_rate_hz, reset) ==
  /\ call' = Completed("Update", timestamp, sample_rate_hz, reset, 0, FALSE, 0)
  /\ UNCHANGED <<manager, packet_iat_stopwatch>>

\* Mutant of UpdateRestart: the reorder counter is not cleared.
UpdateRestart_KeepsReorderCount(timestamp, sample_rate_hz, reset) ==
  /\ delay_history' = << >>
  /\ packet_iat_stopwatch' = 0
  /\ last_timestamp' = timestamp
  /\ first_packet_received' = TRUE
  /\ call' = Completed("Update", timestamp, sample_rate_hz, reset, 0, FALSE, 0)
  /\ UNCHANGED <<max_packets_in_buffer, bounds, packet_len_ms,
                 effective_minimum_delay_ms, target_level_ms,
                 num_reordered_packets>>

\* Mutant of UpdateRestart: a packet carrying the reset flag is not taken as
\* the first packet.
UpdateRestart_ResetStaysUninitialized(timestamp, sample_rate_hz, reset) ==
  /\ delay_history' = << >>
  /\ packet_iat_stopwatch' = 0
  /\ last_timestamp' = timestamp
  /\ first_packet_received' = ~reset
  /\ num_reordered_packets' = 0
  /\ call' = Completed("Update", timestamp, sample_rate_hz, reset, 0, FALSE, 0)
  /\ UNCHANGED <<max_packets_in_buffer, bounds, packet_len_ms,
                 effective_minimum_delay_ms, target_level_ms>>

(* DelayManager::Update, lines 128-136: restart the estimation.            *)
UpdateRestart(timestamp, sample_rate_hz, reset) ==
  /\ delay_history' = << >>
  /\ packet_iat_stopwatch' = 0
  /\ last_timestamp' = timestamp
  /\ first_packet_received' = TRUE
  /\ num_reordered_packets' = 0
  /\ call' = Completed("Update", timestamp, sample_rate_hz, reset, 0, FALSE, 0)
  /\ UNCHANGED <<max_packets_in_buffer, bounds, packet_len_ms,
                 effective_minimum_delay_ms, target_level_ms>>

\* Mutants of PrepareForNextArrival: the counter is compared with <=; a
\* reordered packet below the limit moves the reference; the counter
\* saturates and the estimation is never restarted.
PrepareForNextArrival_OneMore(timestamp, reordered, history) ==
  IF reordered /\ num_reordered_packets <= kMaxNumReorderedPackets
    THEN /\ num_reordered_packets' = num_reordered_packets + 1
         /\ delay_history' = history
         /\ UNCHANGED <<packet_iat_stopwatch, last_timestamp>>
    ELSE /\ delay_history' = IF reordered THEN << >> ELSE history
         /\ num_reordered_packets' = 0
         /\ packet_iat_stopwatch' = 0
         /\ last_timestamp' = timestamp

PrepareForNextArrival_MovesReference(timestamp, reordered, history) ==
  IF reordered /\ num_reordered_packets < kMaxNumReorderedPackets
    THEN /\ num_reordered_packets' = num_reordered_packets + 1
         /\ delay_history' = history
         /\ packet_iat_stopwatch' = 0
         /\ last_timestamp' = timestamp
    ELSE /\ delay_history' = IF reordered THEN << >> ELSE history
         /\ num_reordered_packets' = 0
         /\ packet_iat_stopwatch' = 0
         /\ last_timestamp' = timestamp

PrepareForNextArrival_Saturates(timestamp, reordered, history) ==
  IF reordered
    THEN /\ num_reordered_packets' =
              Min(num_reordered_packets + 1, kMaxNumReorderedPackets)
         /\ delay_history' = history
         /\ UNCHANGED <<packet_iat_stopwatch, last_timestamp>>
    ELSE /\ delay_history' = history
         /\ num_reordered_packets' = 0
         /\ packet_iat_stopwatch' = 0
         /\ last_timestamp' = timestamp

(* DelayManager::Update, lines 170-183: prepare for the next arrival.      *)
PrepareForNextArrival(timestamp, reordered, history) ==
  IF reordered /\ num_reordered_packets < kMaxNumReorderedPackets
    THEN /\ num_reordered_packets' = num_reordered_packets + 1
         /\ delay_history' = history
         /\ UNCHANGED <<packet_iat_stopwatch, last_timestamp>>
    ELSE /\ delay_history' = IF reordered THEN << >> ELSE history
         /\ num_reordered_packets' = 0
         /\ packet_iat_stopwatch' = 0
         /\ last_timestamp' = timestamp

(* DelayManager::Update, lines 138-184: a packet while tracking.           *)
(* expected_iat_ms is the outcome of the line-138 expression and           *)
(* bucket_index the bucket histogram_->Quantile returns.                   *)
UpdateTracking(timestamp, sample_rate_hz, reset, expected_iat_ms, bucket_index) ==
  LET iat_ms       == packet_iat_stopwatch
      iat_delay_ms == iat_ms - expected_iat_ms
      reordered    == ~IsNewerTimestamp(timestamp, last_timestamp)
      history      == IF reordered
                        THEN delay_history
                        ELSE UpdateDelayHistory(delay_history, iat_delay_ms,
                                                timestamp, sample_rate_hz)
      relative_delay == IF reordered
                          THEN Max(iat_delay_ms, 0)
                          ELSE CalculateRelativePacketArrivalDelay(history)
  IN  /\ target_level_ms' = TargetLevelMs(bucket_index)
      /\ PrepareForNextArrival(timestamp, reordered, history)
      /\ call' = Completed("Update", timestamp, sample_rate_hz, reset, 0,
                           TRUE, relative_delay)
      /\ UNCHANGED <<max_packets_in_buffer, first_packet_received, bounds,
                     packet_len_ms, effective_minimum_delay_ms>>

(* DelayManager::Update                                                    *)
Update(timestamp, sample_rate_hz, reset, bucket_index) ==
  IF sample_rate_hz <= 0
    THEN UpdateInvalidRate(timestamp, sample_rate_hz, reset)
    ELSE IF ~first_packet_received \/ reset
      THEN UpdateRestart(timestamp, sample_rate_hz, reset)
      ELSE \E expected_iat_ms \in
                ExpectedIatMs(timestamp, last_timestamp, sample_rate_hz) :
             UpdateTracking(timestamp, sample_rate_hz, reset,
                            expected_iat_ms, bucket_index)

(* DelayManager::SetPacketAudioLength                                      *)
SetPacketAudioLength(length_ms) ==
  IF length_ms <= 0
    THEN /\ call' = Returned("SetPacketAudioLength", length_ms, -1)
         /\ UNCHANGED <<manager, packet_iat_stopwatch>>
    ELSE /\ packet_len_ms' = length_ms
         /\ call' = Returned("SetPacketAudioLength", length_ms, 0)
         /\ UNCHANGED <<max_packets_in_buffer, estimator, bounds,
                        effective_minimum_delay_ms, target_level_ms,
                        packet_iat_stopwatch>>

\* Mutant of SetMinimumDelay: the new minimum is applied to the target level
\* at once.
SetMinimumDelay_RaisesTarget(delay_ms) ==
  IF ~IsValidMinimumDelay(delay_ms)
    THEN /\ call' = Returned("SetMinimumDelay", delay_ms, 0)
         /\ UNCHANGED <<manager, packet_iat_stopwatch>>
    ELSE /\ minimum_delay_ms' = delay_ms
         /\ effective_minimum_delay_ms' =
              UpdateEffectiveMinimumDelay(delay_ms, maximum_delay_ms,
                                          base_minimum_delay_ms)
         /\ target_level_ms' = Max(target_level_ms, delay_ms)
         /\ call' = Returned("SetMinimumDelay", delay_ms, 1)
         /\ UNCHANGED <<max_packets_in_buffer, estimator, maximum_delay_ms,
                        base_minimum_delay_ms, packet_len_ms,
                        packet_iat_stopwatch>>

(* DelayManager::SetMinimumDelay                                           *)
SetMinimumDelay(delay_ms) ==
  IF ~IsValidMinimumDelay(delay_ms)
    THEN /\ call' = Returned("SetMinimumDelay", delay_ms, 0)
         /\ UNCHANGED <<manager, packet_iat_stopwatch>>
    ELSE /\ minimum_delay_ms' = delay_ms
         /\ effective_minimum_delay_ms' =
              UpdateEffectiveMinimumDelay(delay_ms, maximum_delay_ms,
                                          base_minimum_delay_ms)
         /\ call' = Returned("SetMinimumDelay", delay_ms, 1)
         /\ UNCHANGED <<max_packets_in_buffer, estimator, maximum_delay_ms,
                        base_minimum_delay_ms, packet_len_ms, target_level_ms,
                        packet_iat_stopwatch>>

\* Mutants of SetMaximumDelay: the value is stored before it is validated;
\* the packet length is not compared.
SetMaximumDelay_StoresFirst(delay_ms) ==
  IF delay_ms # 0 /\ (delay_ms < minimum_delay_ms \/ delay_ms < packet_len_ms)
    THEN /\ maximum_delay_ms' = delay_ms
         /\ call' = Returned("SetMaximumDelay", delay_ms, 0)
         /\ UNCHANGED <<max_packets_in_buffer, estimator, minimum_delay_ms,
                        base_minimum_delay_ms, packet_len_ms, target_level_ms,
                        effective_minimum_delay_ms, packet_iat_stopwatch>>
    ELSE /\ maximum_delay_ms' = delay_ms
         /\ effective_minimum_delay_ms' =
              UpdateEffectiveMinimumDelay(minimum_delay_ms, delay_ms,
                                          base_minimum_delay_ms)
         /\ call' = Returned("SetMaximumDelay", delay_ms, 1)
         /\ UNCHANGED <<max_packets_in_buffer, estimator, minimum_delay_ms,
                        base_minimum_delay_ms, packet_len_ms, target_level_ms,
                        packet_iat_stopwatch>>

SetMaximumDelay_IgnoresPacketLength(delay_ms) ==
  IF delay_ms # 0 /\ delay_ms < minimum_delay_ms
    THEN /\ call' = Returned("SetMaximumDelay", delay_ms, 0)
         /\ UNCHANGED <<manager, packet_iat_stopwatch>>
    ELSE /\ maximum_delay_ms' = delay_ms
         /\ effective_minimum_delay_ms' =
              UpdateEffectiveMinimumDelay(minimum_delay_ms, delay_ms,
                                          base_minimum_delay_ms)
         /\ call' = Returned("SetMaximumDelay", delay_ms, 1)
         /\ UNCHANGED <<max_packets_in_buffer, estimator, minimum_delay_ms,
                        base_minimum_delay_ms, packet_len_ms, target_level_ms,
                        packet_iat_stopwatch>>

(* DelayManager::SetMaximumDelay                                           *)
SetMaximumDelay(delay_ms) ==
  IF delay_ms # 0 /\ (delay_ms < minimum_delay_ms \/ delay_ms < packet_len_ms)
    THEN /\ call' = Returned("SetMaximumDelay", delay_ms, 0)
         /\ UNCHANGED <<manager, packet_iat_stopwatch>>
    ELSE /\ maximum_delay_ms' = delay_ms
         /\ effective_minimum_delay_ms' =
              UpdateEffectiveMinimumDelay(minimum_delay_ms, delay_ms,
                                          base_minimum_delay_ms)
         /\ call' = Returned("SetMaximumDelay", delay_ms, 1)
         /\ UNCHANGED <<max_packets_in_buffer, estimator, minimum_delay_ms,
                        base_minimum_delay_ms, packet_len_ms, target_level_ms,
                        packet_iat_stopwatch>>

(* DelayManager::SetBaseMinimumDelay                                       *)
SetBaseMinimumDelay(delay_ms) ==
  IF ~IsValidBaseMinimumDelay(delay_ms)
    THEN /\ call' = Returned("SetBaseMinimumDelay", delay_ms, 0)
         /\ UNCHANGED <<manager, packet_iat_stopwatch>>
    ELSE /\ base_minimum_delay_ms' = delay_ms
         /\ effective_minimum_delay_ms' =
              UpdateEffectiveMinimumDelay(minimum_delay_ms, maximum_delay_ms,
                                          delay_ms)
         /\ call' = Returned("SetBaseMinimumDelay", delay_ms, 1)
         /\ UNCHANGED <<max_packets_in_buffer, estimator, minimum_delay_ms,
                        maximum_delay_ms, packet_len_ms, target_level_ms,
                        packet_iat_stopwatch>>

(* The tick timer advances by ms: packet_iat_stopwatch_->ElapsedMs() grows. *)
AdvanceTime(ms) ==
  /\ packet_iat_stopwatch + ms <= MaxStopwatchTicks * ms
  /\ packet_iat_stopwatch' = packet_iat_stopwatch + ms
  /\ call' = Completed("AdvanceTime", <<0, 0>>, 0, FALSE, ms, FALSE, 0)
  /\ UNCHANGED manager

-----------------------------------------------------------------------------
(* Specification Spec: the delay bounds and the target level.  The manager *)
(* is built with a small or a moderate buffer and every operation is       *)
(* called with every input below; packets carry one of two timestamps and  *)
(* arrive back to back (the stopwatch reads 0).                            *)
MaxPacketsInBuffer   == {1, 4}
BaseAtConstruction   == {0, 10000}
Timestamps           == {TS(0, 0), TS(0, 160)}
SampleRates          == {0, 8000}
QuantileBuckets      == {0, 99}
PacketLengths        == {0, 20, 60}
MinimumDelays        == {-1, 0, 40, 60, 10001}
MaximumDelays        == {-1, 0, 50}
BaseMinimumDelays    == {-1, 0, 10000, 10001}

Init ==
  \E max_packets \in MaxPacketsInBuffer, base \in BaseAtConstruction :
    Construct(max_packets, base)

Next ==
  \/ \E timestamp \in Timestamps, sample_rate_hz \in SampleRates,
        reset \in BOOLEAN, bucket_index \in QuantileBuckets :
       Update(timestamp, sample_rate_hz, reset, bucket_index)
  \/ \E length_ms \in PacketLengths : SetPacketAudioLength(length_ms)
  \/ Reset
  \/ \E delay_ms \in MinimumDelays : SetMinimumDelay(delay_ms)
  \/ \E delay_ms \in MaximumDelays : SetMaximumDelay(delay_ms)
  \/ \E delay_ms \in BaseMinimumDelays : SetBaseMinimumDelay(delay_ms)

Spec == Init /\ [][Next]_vars

-----------------------------------------------------------------------------
(* Specification SpecArrival: the arrival-delay estimator.  One buffer     *)
(* size, rejected bound values only, time that advances, and packets with  *)
(* the timestamps 2^32 - 160 = <<65535, 65376>> (just below the wrap), 0,  *)
(* 20000 (2500 ms at 8 kHz, 1250 ms at 16 kHz: past the 2000 ms horizon at *)
(* one rate and inside it at the other) and 3000000 = <<45, 50880>> (far   *)
(* enough for 1000 * d to leave the int range).                            *)
ArrivalTimestamps    == {TS(65535, 65376), TS(0, 0), TS(0, 20000), TS(45, 50880)}
ArrivalSampleRates   == {-1, 8000, 16000}
ArrivalTickStepsMs   == {20}

InitArrival == Construct(200, 0)

NextArrival ==
  \/ \E timestamp \in ArrivalTimestamps, sample_rate_hz \in ArrivalSampleRates,
        reset \in BOOLEAN :
       Update(timestamp, sample_rate_hz, reset, 0)
  \/ SetPacketAudioLength(0) \/ SetPacketAudioLength(20)
  \/ Reset
  \/ SetMinimumDelay(-1)
  \/ SetMaximumDelay(-1)
  \/ SetBaseMinimumDelay(-1)
  \/ \E ms \in ArrivalTickStepsMs : AdvanceTime(ms)

SpecArrival == InitArrival /\ [][NextArrival]_vars

-----------------------------------------------------------------------------
(* Vocabulary of the claims.                                               *)

ApiCalls == {"Update", "Reset", "SetPacketAudioLength", "SetMinimumDelay",
             "SetMaximumDelay", "SetBaseMinimumDelay"}

\* The last completed call was an Update that returned a value.
UpdateReturnedValue == call.op = "Update" /\ call.has_value

\* floor(3 * max_packets_in_buffer * packet_len_ms / 4)
BufferCeilingMs == (3 * max_packets_in_buffer * packet_len_ms) \div 4

-----------------------------------------------------------------------------
\* C1 (as stated): after each completed call of Update, Reset or a setter,
\* target_level_ms >= effective_minimum_delay_ms.
C1_TargetAtLeastEffectiveMinimum ==
  call.op \in ApiCalls => target_level_ms >= effective_minimum_delay_ms

\* C1 (amended): after each Update that returns a value,
\* target_level_ms >= effective_minimum_delay_ms, unless packet_len_ms > 0 and
\* the 75% buffer ceiling is below the effective minimum, in which case
\* target_level_ms equals that ceiling.
C1_TargetAtLeastEffectiveMinimumAfterUpdate ==
  UpdateReturnedValue =>
    IF packet_len_ms > 0 /\ BufferCeilingMs < effective_minimum_delay_ms
      THEN target_level_ms = BufferCeilingMs
      ELSE target_level_ms >= effective_minimum_delay_ms

\* An Update whose histogram level (20 ms) was raised to the effective minimum.
C1_Witness ==
  /\ UpdateReturnedValue
  /\ effective_minimum_delay_ms = 40
  /\ target_level_ms = 40

\* C2 (as stated): after each completed call, if maximum_delay_ms > 0 then
\* target_level_ms <= maximum_delay_ms.
C2_TargetAtMostMaximum ==
  call.op \in ApiCalls =>
    (maximum_delay_ms > 0 => target_level_ms <= maximum_delay_ms)

\* C2 (amended): after each Update that returns a value, if
\* maximum_delay_ms > 0 then target_level_ms <= maximum_delay_ms, unless
\* packet_len_ms exceeds the maximum, in which case
\* target_level_ms <= packet_len_ms.
C2_TargetAtMostMaximumAfterUpdate ==
  (UpdateReturnedValue /\ maximum_delay_ms > 0) =>
    IF packet_len_ms > maximum_delay_ms
      THEN target_level_ms <= packet_len_ms
      ELSE target_level_ms <= maximum_delay_ms

\* An Update whose level was cut down to the maximum.
C2_Witness ==
  /\ UpdateReturnedValue
  /\ maximum_delay_ms = 50
  /\ packet_len_ms = 0
  /\ effective_minimum_delay_ms = 0
  /\ target_level_ms = 50

\* C3 (as stated): after each completed call, if packet_len_ms > 0 then
\* packet_len_ms <= target_level_ms <= floor(3 * max_packets * packet_len / 4).
C3_TargetWithinPacketAndBuffer ==
  call.op \in ApiCalls =>
    (packet_len_ms > 0 =>
       /\ packet_len_ms <= target_level_ms
       /\ target_level_ms <= BufferCeilingMs)

\* C3 (amended): after each Update that returns a value, if packet_len_ms > 0
\* then target_level_ms <= floor(3 * max_packets * packet_len / 4), and
\* target_level_ms >= packet_len_ms whenever that ceiling is at least one
\* packet (otherwise target_level_ms equals the ceiling).
C3_TargetWithinPacketAndBufferAfterUpdate ==
  (UpdateReturnedValue /\ packet_len_ms > 0) =>
    /\ target_level_ms <= BufferCeilingMs
    /\ target_level_ms >= Min(packet_len_ms, BufferCeilingMs)

\* An Update whose level (20 ms) was raised to one 60 ms packet, below the
\* ceiling of 180 ms.
C3_Witness ==
  /\ UpdateReturnedValue
  /\ packet_len_ms = 60
  /\ max_packets_in_buffer = 4
  /\ effective_minimum_delay_ms < 60
  /\ target_level_ms = 60

-----------------------------------------------------------------------------
\* C4: an Update with sample_rate_hz > 0 returns no value exactly when
\* first_packet_received was false before the call or reset is true; it then
\* clears the history, sets last_timestamp to the packet's timestamp, sets
\* first_packet_received, zeroes the reorder counter and changes neither
\* target_level_ms nor packet_len_ms nor any bound.  Otherwise it returns a
\* value.
C4_UpdateRestartsEstimation ==
  [][ (call'.op = "Update" /\ call'.sample_rate_hz > 0) =>
        /\ (~call'.has_value) <=> (~first_packet_received \/ call'.reset)
        /\ (~call'.has_value) =>
             /\ delay_history' = << >>
             /\ last_timestamp' = call'.timestamp
             /\ first_packet_received' = TRUE
             /\ num_reordered_packets' = 0
             /\ UNCHANGED <<target_level_ms, packet_len_ms, bounds,
                            effective_minimum_delay_ms, max_packets_in_buffer>>
    ]_vars

\* An Update with reset = true has restarted the estimation with an older
\* timestamp than the packets before it.
C4_Witness ==
  /\ call.op = "Update" /\ call.sample_rate_hz > 0 /\ call.reset
  /\ ~call.has_value
  /\ first_packet_received
  /\ delay_history = << >>
  /\ last_timestamp = call.timestamp
  /\ packet_len_ms = 20
  /\ target_level_ms = 20

\* The running sum of iat_delay_ms over a history in arrival order, put back
\* to 0 after each addition that makes it negative.
ClampedRunningSum(history) ==
  LET sum[i \in 0 .. Len(history)] ==
        IF i = 0 THEN 0
        ELSE IF sum[i - 1] + history[i].iat_delay_ms < 0 THEN 0
        ELSE sum[i - 1] + history[i].iat_delay_ms
  IN  sum[Len(history)]

\* C5: every value Update returns is >= 0.  With iat_delay_ms = elapsed ms -
\* expected_iat_ms: for a reordered packet the value is max(iat_delay_ms, 0);
\* for an in-order packet the history becomes the old history with this
\* packet's sample appended, less some samples at the front, and the value is
\* the clamped running sum over it.
C5_RelativeDelayReturned ==
  [][ (call'.op = "Update" /\ call'.has_value) =>
        /\ call'.value >= 0
        /\ \E expected_iat_ms \in ExpectedIatMs(call'.timestamp, last_timestamp,
                                                call'.sample_rate_hz) :
             LET iat_delay_ms == packet_iat_stopwatch - expected_iat_ms
                 sample == [iat_delay_ms |-> iat_delay_ms,
                            timestamp |-> call'.timestamp]
                 appended == Append(delay_history, sample)
             IN  IF ~IsNewerTimestamp(call'.timestamp, last_timestamp)
                   THEN call'.value = Max(iat_delay_ms, 0)
                   ELSE /\ \E k \in 1 .. Len(appended) :
                             delay_history' = SubSeq(appended, k, Len(appended))
                        /\ call'.value = ClampedRunningSum(delay_history')
    ]_vars

\* An in-order Update over a history of two samples, a late packet and then
\* an early one: the sum would be negative and 0 is returned.
C5_Witness ==
  /\ UpdateReturnedValue
  /\ num_reordered_packets = 0
  /\ Len(delay_history) = 2
  /\ delay_history[1].iat_delay_ms > 0
  /\ delay_history[1].iat_delay_ms + delay_history[2].iat_delay_ms < 0
  /\ delay_history[2].timestamp = call.timestamp
  /\ call.value = 0

BoundSetters == {"SetMinimumDelay", "SetMaximumDelay", "SetBaseMinimumDelay"}

\* C6: a rejected call reports failure and leaves the manager's state as it
\* was: Update with sample_rate_hz <= 0 returns no value,
\* SetPacketAudioLength(length_ms <= 0) returns -1, and a bound setter given a
\* negative value returns false; whenever one of these, or any bound setter
\* returning false, completes, every field of the manager keeps its value.
C6_RejectedCallsChangeNothing ==
  [][ /\ (call'.op = "Update" /\ call'.sample_rate_hz <= 0) =>
           (~call'.has_value /\ UNCHANGED manager)
      /\ (call'.op = "SetPacketAudioLength" /\ call'.arg <= 0) =>
           (call'.value = -1 /\ UNCHANGED manager)
      /\ (call'.op \in BoundSetters /\ call'.arg < 0) => call'.value = 0
      /\ (call'.op \in BoundSetters /\ call'.value = 0) => UNCHANGED manager
    ]_vars

\* SetMaximumDelay(50) was refused below a minimum of 60, with a packet in the
\* history.
C6_Witness ==
  /\ call.op = "SetMaximumDelay" /\ call.arg = 50 /\ call.value = 0
  /\ minimum_delay_ms = 60
  /\ maximum_delay_ms = 0
  /\ delay_history # << >>

\* min(maximum_delay_ms if > 0 else 10000, q75 if > 0 else 10000) with
\* q75 = floor(3 * max_packets_in_buffer * packet_len_ms / 4).
ClaimedUpperBound ==
  Min(IF maximum_delay_ms > 0 THEN maximum_delay_ms ELSE 10000,
      IF BufferCeilingMs > 0 THEN BufferCeilingMs ELSE 10000)

\* max(minimum_delay_ms, clamp(base_minimum_delay_ms, 0, upper bound))
ClaimedEffectiveMinimum ==
  Max(minimum_delay_ms, Min(Max(base_minimum_delay_ms, 0), ClaimedUpperBound))

\* C7: SetMinimumDelay(ms) succeeds exactly when
\* 0 <= ms <= MinimumDelayUpperBound(); on success minimum_delay_ms = ms and
\* effective_minimum_delay_ms is recomputed.
C7_SetMinimumDelay ==
  [][ call'.op = "SetMinimumDelay" =>
        /\ (call'.value = 1) <=>
             (0 <= call'.arg /\ call'.arg <= ClaimedUpperBound)
        /\ (call'.value = 1) =>
             /\ minimum_delay_ms' = call'.arg
             /\ effective_minimum_delay_ms' = ClaimedEffectiveMinimum'
    ]_vars

\* SetMinimumDelay(60) succeeded at the upper bound itself (4 packets of
\* 20 ms: q75 = 60).
C7_Witness ==
  /\ call.op = "SetMinimumDelay" /\ call.arg = 60 /\ call.value = 1
  /\ max_packets_in_buffer = 4 /\ packet_len_ms = 20
  /\ minimum_delay_ms = 60

\* C8: SetMaximumDelay(0) always succeeds; SetMaximumDelay(ms), ms # 0,
\* succeeds exactly when ms >= minimum_delay_ms and ms >= packet_len_ms; on
\* success maximum_delay_ms = ms and effective_minimum_delay_ms is recomputed.
C8_SetMaximumDelay ==
  [][ call'.op = "SetMaximumDelay" =>
        /\ (call'.value = 1) <=>
             \/ call'.arg = 0
             \/ call'.arg >= minimum_delay_ms /\ call'.arg >= packet_len_ms
        /\ (call'.value = 1) =>
             /\ maximum_delay_ms' = call'.arg
             /\ effective_minimum_delay_ms' = ClaimedEffectiveMinimum'
    ]_vars

\* SetMaximumDelay(50) succeeded with minimum_delay_ms = 40 and
\* packet_len_ms = 20.
C8_Witness ==
  /\ call.op = "SetMaximumDelay" /\ call.arg = 50 /\ call.value = 1
  /\ minimum_delay_ms = 40 /\ packet_len_ms = 20
  /\ maximum_delay_ms = 50

\* C9: SetBaseMinimumDelay(ms) succeeds exactly when 0 <= ms <= 10000,
\* whatever the other bounds and packet_len_ms; on success
\* base_minimum_delay_ms = ms, unclamped, and effective_minimum_delay_ms is
\* recomputed.
C9_SetBaseMinimumDelay ==
  [][ call'.op = "SetBaseMinimumDelay" =>
        /\ (call'.value = 1) <=> (0 <= call'.arg /\ call'.arg <= 10000)
        /\ (call'.value = 1) =>
             /\ base_minimum_delay_ms' = call'.arg
             /\ effective_minimum_delay_ms' = ClaimedEffectiveMinimum'
    ]_vars

\* SetBaseMinimumDelay(10000) succeeded under a maximum of 50: the base is
\* stored unclamped and the effective minimum is clamped.
C9_Witness ==
  /\ call.op = "SetBaseMinimumDelay" /\ call.arg = 10000 /\ call.value = 1
  /\ base_minimum_delay_ms = 10000
  /\ maximum_delay_ms = 50
  /\ effective_minimum_delay_ms = 50

\* C10: Reset sets packet_len_ms = 0, empties the history, sets
\* target_level_ms = 80, clears first_packet_received and the reorder counter,
\* and leaves minimum_delay_ms, maximum_delay_ms and base_minimum_delay_ms
\* unchanged.
C10_Reset ==
  [][ call'.op = "Reset" =>
        /\ packet_len_ms' = 0
        /\ delay_history' = << >>
        /\ target_level_ms' = 80
        /\ first_packet_received' = FALSE
        /\ num_reordered_packets' = 0
        /\ UNCHANGED <<minimum_delay_ms, maximum_delay_ms, base_minimum_delay_ms>>
    ]_vars

\* A Reset of a manager whose three bounds had all been set.
C10_Witness ==
  /\ call.op = "Reset"
  /\ minimum_delay_ms = 40 /\ maximum_delay_ms = 50
  /\ base_minimum_delay_ms = 10000
  /\ packet_len_ms = 0 /\ target_level_ms = 80
  /\ ~first_packet_received

-----------------------------------------------------------------------------
\* The effective minimum of a freshly constructed manager that was given the
\* bounds this one has: it is computed while packet_len_ms is still 0.
FreshEffectiveMinimum ==
  Max(minimum_delay_ms,
      Min(Max(base_minimum_delay_ms, 0),
          IF maximum_delay_ms > 0 THEN maximum_delay_ms
                                   ELSE kMaxBaseMinimumDelayMs))

\* C11: Reset() followed at once by Update(t, r, false) with r > 0 behaves as
\* that Update on a freshly constructed manager with the same
\* max_packets_in_buffer and the same three bounds: it returns no value, the
\* manager is tracking, and it is in the state the fresh manager is in after
\* its first Update, so that every later call returns the same value and
\* gives the same target level.  (The effective minimum is the one field a
\* later Update's target level reads that neither Reset nor Update assigns.)
C11_ResetThenUpdateAsFresh ==
  [][ (call.op = "Reset" /\ call'.op = "Update" /\ call'.sample_rate_hz > 0
       /\ ~call'.reset) =>
        /\ ~call'.has_value
        /\ first_packet_received' = TRUE
        /\ last_timestamp' = call'.timestamp
        /\ num_reordered_packets' = 0
        /\ delay_history' = << >>
        /\ packet_iat_stopwatch' = 0
        /\ packet_len_ms' = 0
        /\ target_level_ms' = 80
        /\ UNCHANGED <<bounds, max_packets_in_buffer>>
        /\ effective_minimum_delay_ms' = FreshEffectiveMinimum'
    ]_vars

\* C12: the setters (SetMinimumDelay, SetMaximumDelay, SetBaseMinimumDelay,
\* SetPacketAudioLength), whether they succeed or fail, never change
\* target_level_ms; the target level changes only in an Update that returns
\* a value and in Reset.
C12_SettersKeepTarget ==
  [][ /\ call'.op \in BoundSetters \cup {"SetPacketAudioLength"} =>
           target_level_ms' = target_level_ms
      /\ target_level_ms' # target_level_ms =>
           \/ call'.op = "Update" /\ call'.has_value
           \/ call'.op = "Reset"
    ]_vars

\* A minimum of 60 ms was accepted while the target level was 20 ms, and the
\* target level is still 20 ms.
C12_Witness ==
  /\ call.op = "SetMinimumDelay" /\ call.arg = 60 /\ call.value = 1
  /\ minimum_delay_ms = 60
  /\ effective_minimum_delay_ms = 60
  /\ target_level_ms = 20

\* The two logical states: in the uninitialized one an Update with a valid
\* sample rate and no reset flag returns no value.
Uninitialized == ~first_packet_received
Tracking == first_packet_received

\* C13 as stated: the manager is uninitialized right after Reset() and right
\* after any Update called with reset = true; it moves from uninitialized to
\* tracking only on an Update whose reset flag is false, and from tracking
\* to uninitialized on Reset() or on any Update with reset = true.
C13_TwoStates ==
  [][ /\ call'.op = "Reset" => Uninitialized'
      /\ (call'.op = "Update" /\ call'.sample_rate_hz > 0 /\ call'.reset) =>
           Uninitialized'
      /\ (Uninitialized /\ Tracking') => (call'.op = "Update" /\ ~call'.reset)
      /\ (Tracking /\ Uninitialized') =>
           (call'.op = "Reset" \/ (call'.op = "Update" /\ call'.reset))
    ]_vars

\* C13, amended: the manager is uninitialized right after Reset() (and after
\* construction), and tracking right after every Update with
\* sample_rate_hz > 0, whatever its reset flag: an Update with reset = true
\* returns no value itself and is the first packet of the new estimation.
\* The state changes to tracking only in such an Update and to
\* uninitialized only in Reset(); an Update without the reset flag returns a
\* value exactly when the manager was tracking.
C13_TwoStatesResetFlagTracks ==
  [][ /\ call'.op = "Reset" => Uninitialized'
      /\ (call'.op = "Update" /\ call'.sample_rate_hz > 0) => Tracking'
      /\ (Uninitialized /\ Tracking') =>
           (call'.op = "Update" /\ call'.sample_rate_hz > 0)
      /\ (Tracking /\ Uninitialized') => call'.op = "Reset"
      /\ (call'.op = "Update" /\ call'.sample_rate_hz > 0 /\ ~call'.reset) =>
           (call'.has_value <=> Tracking)
      /\ (call'.op = "Update" /\ call'.reset) => ~call'.has_value
    ]_vars

\* An Update with the reset flag has returned no value and the manager is
\* tracking, its reference timestamp being that packet's.
C13_Witness ==
  /\ call.op = "Update" /\ call.reset /\ call.sample_rate_hz > 0
  /\ ~call.has_value
  /\ Tracking
  /\ last_timestamp = call.timestamp
  /\ call.timestamp = TS(45, 50880)

\* C14: after every completed Update, Reset or setter call
\* (SetPacketAudioLength included), effective_minimum_delay_ms equals
\* max(minimum_delay_ms, clamp(base_minimum_delay_ms, 0,
\* MinimumDelayUpperBound())), the upper bound being evaluated on the current
\* packet_len_ms and maximum_delay_ms.
C14_EffectiveMinimumDerived ==
  call.op \in {"Update", "Reset", "SetPacketAudioLength"} \cup BoundSetters =>
    effective_minimum_delay_ms =
      Max(minimum_delay_ms,
          Min(Max(base_minimum_delay_ms, 0),
              LET q75 == (max_packets_in_buffer * packet_len_ms * 3) \div 4
                  cap == IF maximum_delay_ms > 0 THEN maximum_delay_ms
                                                 ELSE kMaxBaseMinimumDelayMs
              IN  IF q75 > 0 THEN Min(cap, q75) ELSE cap))

\* The Update that has just returned a value was given a timestamp that is
\* not newer than the reference timestamp it found.
ReorderedUpdate ==
  /\ call'.op = "Update" /\ call'.has_value
  /\ ~IsNewerTimestamp(call'.timestamp, last_timestamp)

InOrderUpdate ==
  /\ call'.op = "Update" /\ call'.has_value
  /\ IsNewerTimestamp(call'.timestamp, last_timestamp)

\* C15: the reorder counter is within [0, 5] in every reachable state; it
\* counts the reordered Updates since the reference was last set, so that
\* from a tracking state with counter 0 reordered Updates one to five leave
\* the history uncleared and the reference in place, and the sixth (the one
\* that finds the counter at 5) clears the history, sets the counter to 0
\* and advances last_timestamp to its own timestamp.
C15_ReorderCounter ==
  /\ [](num_reordered_packets \in 0..5)
  /\ [][ /\ (ReorderedUpdate /\ num_reordered_packets < 5) =>
              /\ num_reordered_packets' = num_reordered_packets + 1
              /\ delay_history' = delay_history
              /\ last_timestamp' = last_timestamp
         /\ (ReorderedUpdate /\ num_reordered_packets = 5) =>
              /\ delay_history' = << >>
              /\ num_reordered_packets' = 0
              /\ last_timestamp' = call'.timestamp
         /\ (num_reordered_packets' # num_reordered_packets /\ ~ReorderedUpdate) =>
              /\ num_reordered_packets' = 0
              /\ call'.op \in {"Update", "Reset"}
       ]_vars

\* The sixth reordered Update in a row has returned: a value-returning
\* Update left the history empty, which an in-order Update never does.
C15_Witness ==
  /\ call.op = "Update" /\ call.has_value
  /\ delay_history = << >>
  /\ num_reordered_packets = 0
  /\ last_timestamp = call.timestamp
  /\ call.timestamp = TS(0, 0)

\* C16: a value-returning Update whose timestamp is not strictly newer than
\* last_timestamp (an equal timestamp included) is reordered: while the
\* counter is below 5 it leaves delay_history and last_timestamp as they
\* were, does not restart the stopwatch and increments the counter by
\* exactly 1.  Every in-order Update appends one sample (the last entry of
\* the history it leaves, carrying its timestamp), sets the counter to 0,
\* sets last_timestamp to its timestamp and restarts the stopwatch.
C16_ReorderedAndInOrder ==
  [][ /\ ( /\ call'.op = "Update" /\ call'.has_value
           /\ \/ call'.timestamp = last_timestamp
              \/ ~IsNewerTimestamp(call'.timestamp, last_timestamp)
           /\ num_reordered_packets < 5 ) =>
             /\ delay_history' = delay_history
             /\ last_timestamp' = last_timestamp
             /\ packet_iat_stopwatch' = packet_iat_stopwatch
             /\ num_reordered_packets' = num_reordered_packets + 1
      /\ ( /\ call'.op = "Update" /\ call'.has_value
           /\ call'.timestamp # last_timestamp
           /\ IsNewerTimestamp(call'.timestamp, last_timestamp) ) =>
             /\ Len(delay_history') >= 1
             /\ Len(delay_history') <= Len(delay_history) + 1
             /\ delay_history'[Len(delay_history')].timestamp = call'.timestamp
             /\ \A i \in 1..(Len(delay_history') - 1) :
                  delay_history'[i] =
                    delay_history[i + Len(delay_history) + 1 - Len(delay_history')]
             /\ num_reordered_packets' = 0
             /\ last_timestamp' = call'.timestamp
             /\ packet_iat_stopwatch' = 0
    ]_vars

\* A packet with the reference's own timestamp was taken as reordered: the
\* counter went to 1, the history is kept and the stopwatch runs on.
C16_Witness ==
  /\ call.op = "Update" /\ call.has_value
  /\ call.timestamp = last_timestamp
  /\ num_reordered_packets = 1
  /\ delay_history # << >>
  /\ packet_iat_stopwatch > 0

\* timestamp - older, as an unsigned 32-bit difference, is at most limit
\* (0 <= limit < 2^16 * 2^15).
WithinHorizon(timestamp, older, limit) ==
  LET diff == U32Sub(timestamp, older)
  IN  \/ diff[1] < limit \div 65536
      \/ diff[1] = limit \div 65536 /\ diff[2] <= limit % 65536

\* C17: the history holds the samples in arrival order, and after an
\* in-order Update no entry's timestamp is more than
\* 2000 * sample_rate_hz / 1000 units (unsigned wraparound difference) older
\* than the timestamp just appended; samples leave only at the front (or all
\* at once, when the estimation restarts), the sample just appended is never
\* removed, so the history is non-empty after every in-order Update, and no
\* other call adds or reorders entries.
C17_HistoryHorizon ==
  [][ IF InOrderUpdate
        THEN /\ delay_history' # << >>
             /\ delay_history'[Len(delay_history')].timestamp = call'.timestamp
             /\ \E k \in 0..Len(delay_history) :
                  delay_history' =
                    SubSeq(delay_history, k + 1, Len(delay_history))
                      \o << delay_history'[Len(delay_history')] >>
             /\ \A i \in 1..Len(delay_history') :
                  WithinHorizon(call'.timestamp, delay_history'[i].timestamp,
                                (2000 * call'.sample_rate_hz) \div 1000)
        ELSE delay_history' \in {delay_history, << >>}
    ]_vars

\* An in-order packet at 16 kHz, 20000 timestamp units after the sample held,
\* was appended behind it: the older sample is within the horizon of 32000
\* units (it would not be at 8 kHz) and is kept at the front.
C17_Witness ==
  /\ call.op = "Update" /\ call.has_value /\ call.sample_rate_hz = 16000
  /\ call.timestamp = TS(0, 20000)
  /\ Len(delay_history) = 2
  /\ delay_history[1].timestamp = TS(0, 0)
  /\ delay_history[2].timestamp = TS(0, 20000)
  /\ last_timestamp = TS(0, 20000)

\* timestamp - last_timestamp as a signed 32-bit number.
SignedDifference(timestamp, prev_timestamp) ==
  ToInt32(U32Sub(timestamp, prev_timestamp))

\* C18: for every pair of 32-bit timestamps and every sample_rate_hz > 0,
\* the expected inter-arrival time Update uses is the exact truncating
\* quotient 1000 * d / sample_rate_hz, d being (timestamp - last_timestamp)
\* mod 2^32 read as a signed 32-bit number, and the product 1000 * d stays
\* within the signed 32-bit range; a timestamp that wrapped past 2^32 by
\* less than 2^31 is newer, with a positive expected inter-arrival time.
\* (An in-order Update stores stopwatch - expected_iat_ms in the sample it
\* appends.)
C18_ExpectedIatExact ==
  [][ (call'.op = "Update" /\ call'.has_value) =>
        LET d == SignedDifference(call'.timestamp, last_timestamp)
        IN  /\ ProductInRange(d)
            /\ InOrderUpdate =>
                 /\ d > 0
                 /\ ExactQuotient(d, call'.sample_rate_hz) >= 0
                 /\ delay_history'[Len(delay_history')].iat_delay_ms =
                      packet_iat_stopwatch
                        - ExactQuotient(d, call'.sample_rate_hz)
    ]_vars

\* C19: in every reachable state (the manager constructed with
\* 0 <= base_minimum_delay_ms <= 10000 and max_packets_in_buffer >= 1),
\* maximum_delay_ms >= 0 and minimum_delay_ms >= 0, and whenever
\* maximum_delay_ms > 0, minimum_delay_ms <= maximum_delay_ms and
\* effective_minimum_delay_ms <= maximum_delay_ms.
C19_BoundsOrdered ==
  /\ maximum_delay_ms >= 0
  /\ minimum_delay_ms >= 0
  /\ maximum_delay_ms > 0 =>
       /\ minimum_delay_ms <= maximum_delay_ms
       /\ effective_minimum_delay_ms <= maximum_delay_ms

\* A maximum of 50 ms is set with a minimum of 40 ms and a base minimum of
\* 10000 ms: the effective minimum is the maximum.
C19_Witness ==
  /\ maximum_delay_ms = 50
  /\ minimum_delay_ms = 40
  /\ base_minimum_delay_ms = 10000
  /\ effective_minimum_delay_ms = 50

\* The Update that has just completed set the reference timestamp to its own
\* timestamp and restarted the stopwatch.
SetsReference ==
  /\ last_timestamp' = call'.timestamp
  /\ packet_iat_stopwatch' = 0
  /\ num_reordered_packets' = 0

\* C20: of any 6 consecutive Update calls with sample_rate_hz > 0 (no Reset
\* between them) at least one sets last_timestamp to its own timestamp and
\* restarts the stopwatch.  num_reordered_packets is the number of such
\* Updates since the last one that set the reference: each one that does not
\* set it adds exactly 1, no call other than Update and Reset changes it,
\* and it never exceeds 5.
C20_ReferenceNotPinned ==
  /\ [](num_reordered_packets <= 5)
  /\ [][ /\ (call'.op = "Update" /\ call'.sample_rate_hz > 0) =>
              \/ SetsReference
              \/ /\ num_reordered_packets' = num_reordered_packets + 1
                 /\ num_reordered_packets' <= 5
         /\ call'.op \notin {"Update", "Reset"} =>
              num_reordered_packets' = num_reordered_packets
       ]_vars

\* Five Updates in a row have left the reference where it was: the reference
\* is older than the packet just handled and the stopwatch was not restarted.
C20_Witness ==
  /\ call.op = "Update" /\ call.has_value
  /\ num_reordered_packets = 5
  /\ last_timestamp = TS(0, 20000)
  /\ call.timestamp = TS(0, 0)
  /\ packet_iat_stopwatch > 0

====
